---- MODULE Spec2Model ----
(***************************************************************************)
(* Model of plugins/inputs/intel_powerstat/msr.go: the per-core MSR        *)
(* refresh (openAndReadMsr / readDataFromMsr / readValueFromFileAtOffset), *)
(* the per-core data store (cpuCoresData) and the core-id parser           *)
(* (parseCores / parseIntRanges / parseIDs / removeDuplicateValues).       *)
(***************************************************************************)
EXTENDS Integers, Sequences, FiniteSets, TLC

(***************************************************************************)
(* Bounds of the model.                                                    *)
(***************************************************************************)
\* number of openAndReadMsr calls a behaviour may start
MaxRefresh == 3
\* number of calls a behaviour of the fair specification may start
MaxFairRefresh == 1

(***************************************************************************)
(* Program constants: the 8 continuously sampled MSR offsets.              *)
(***************************************************************************)
c3StateResidencyLocation == 1020
c6StateResidencyLocation == 1021
c7StateResidencyLocation == 1022
maximumFrequencyClockCountLocation == 231
actualFrequencyClockCountLocation == 232
throttleTemperatureLocation == 418
temperatureLocation == 412
timestampCounterLocation == 16

\* the offsets of the registers readSingleMsr reads by name
turboRatioLimitLocation == 429
turboRatioLimit1Location == 430
turboRatioLimit2Location == 431
atomCoreTurboRatiosLocation == 1644
uncorePerfStatusLocation == 1569
platformInfo == 206
fsbFreq == 205

\* the names readSingleMsr knows
msrTurboRatioLimitString == "MSR_TURBO_RATIO_LIMIT"
msrTurboRatioLimit1String == "MSR_TURBO_RATIO_LIMIT1"
msrTurboRatioLimit2String == "MSR_TURBO_RATIO_LIMIT2"
msrAtomCoreTurboRatiosString == "MSR_ATOM_CORE_TURBO_RATIOS"
msrUncorePerfStatusString == "MSR_UNCORE_PERF_STATUS"
msrPlatformInfoString == "MSR_PLATFORM_INFO"
msrFSBFreqString == "MSR_FSB_FREQ"

\* newMsrServiceWithFs: the order the offsets are listed in
msrOffsets ==
  << c3StateResidencyLocation, c6StateResidencyLocation, c7StateResidencyLocation,
     maximumFrequencyClockCountLocation, actualFrequencyClockCountLocation,
     timestampCounterLocation, throttleTemperatureLocation, temperatureLocation >>

Offsets == { msrOffsets[i] : i \in 1..Len(msrOffsets) }

\* readDataFromMsr: the order the caller receives from the channels
recvOrder ==
  << c3StateResidencyLocation, c6StateResidencyLocation, c7StateResidencyLocation,
     maximumFrequencyClockCountLocation, actualFrequencyClockCountLocation,
     timestampCounterLocation, throttleTemperatureLocation, temperatureLocation >>

(***************************************************************************)
(* uint64 as four 16-bit limbs, least significant first.                   *)
(***************************************************************************)
Limb == 65536

U64Zero == <<0, 0, 0, 0>>

\* a < b on uint64
LessU64(a, b) ==
  \E i \in 1..4 : a[i] < b[i] /\ \A j \in (i + 1)..4 : a[j] = b[j]

\* a + b on uint64, modulo 2^64
AddU64(a, b) ==
  LET s1 == a[1] + b[1]
      s2 == a[2] + b[2] + s1 \div Limb
      s3 == a[3] + b[3] + s2 \div Limb
      s4 == a[4] + b[4] + s3 \div Limb
  IN  << s1 % Limb, s2 % Limb, s3 % Limb, s4 % Limb >>

IsU64(a) == /\ DOMAIN a = 1..4
            /\ \A i \in 1..4 : a[i] \in 0..(Limb - 1)

\* limb-wise subtraction with borrow, the borrow out of the top limb dropped
SubLimbs(a, b) ==
  LET d1 == a[1] - b[1]
      w1 == IF d1 < 0 THEN 1 ELSE 0
      d2 == a[2] - b[2] - w1
      w2 == IF d2 < 0 THEN 1 ELSE 0
      d3 == a[3] - b[3] - w2
      w3 == IF d3 < 0 THEN 1 ELSE 0
      d4 == a[4] - b[4] - w3
  IN  << (d1 + Limb) % Limb, (d2 + Limb) % Limb, (d3 + Limb) % Limb, (d4 + Limb) % Limb >>

\* a difference that stops at zero instead of wrapping
SubU64Clamped(a, b) == IF LessU64(a, b) THEN U64Zero ELSE SubLimbs(a, b)

\* a - b on uint64 (Go: wraps modulo 2^64)
SubU64(a, b) == SubLimbs(a, b)

\* x >> 16 on uint64
Shr16(x) == << x[2], x[3], x[4], 0 >>

\* int64(x & mask) for a mask 2^n - 1 with n <= 16
AndLow(x, mask) == x[1] % (mask + 1)

\* int64((newThrottleTemp >> 16) & 0xFF)
ThrottleTempOf(raw) == AndLow(Shr16(raw), 255)

\* the temperature taken with the mask of the throttle temperature
TempOfByteMask(raw) == AndLow(Shr16(raw), 255)

\* int64((newTemp >> 16) & 0x7F)
TempOf(raw) == AndLow(Shr16(raw), 127)

(***************************************************************************)
(* parseCores, parseIntRanges, parseIDs, removeDuplicateValues.            *)
(* A Go string is a sequence of one-character strings; a Go slice is a     *)
(* record that tells nil from empty.                                       *)
(***************************************************************************)
\* number of strings in the list handed to parseCores
MaxSpecs == 2

\* Maximum size of core IDs or socket IDs
maxIDsSize == 8192

DigitChars == << "0", "1", "2", "3", "4", "5", "6", "7", "8", "9" >>

IsDigit(c) == \E i \in 1..10 : DigitChars[i] = c

DigitVal(c) == (CHOOSE i \in 1..10 : DigitChars[i] = c) - 1

\* the decimal digits of a natural number
RECURSIVE ToDigits(_)
ToDigits(n) ==
  IF n < 10 THEN << DigitChars[n + 1] >>
  ELSE ToDigits(n \div 10) \o << DigitChars[(n % 10) + 1] >>

\* a token of an identifier specification written out: <<a>> as a, <<a, b>>
\* as a-b, with a space on both sides when pad is set
RenderToken(t, pad) ==
  LET body == IF Len(t) = 1 THEN ToDigits(t[1])
              ELSE ToDigits(t[1]) \o << "-" >> \o ToDigits(t[2])
  IN  IF pad THEN << " " >> \o body \o << " " >> ELSE body

\* the tokens written out and joined by commas
RECURSIVE RenderTokens(_, _)
RenderTokens(toks, pad) ==
  IF Len(toks) = 1 THEN RenderToken(toks[1], pad)
  ELSE RenderToken(toks[1], pad) \o << "," >> \o RenderTokens(Tail(toks), pad)

\* the strings a configuration may hold: specifications given by their
\* tokens, and other text
SpecPool ==
  { [kind |-> "spec", toks |-> <<<<0>>, <<1>>, <<2>>>>, pad |-> FALSE, text |-> <<>>],
    [kind |-> "spec", toks |-> <<<<1>>, <<3>>>>, pad |-> FALSE, text |-> <<>>],
    [kind |-> "spec", toks |-> <<<<0, 2>>>>, pad |-> FALSE, text |-> <<>>],
    [kind |-> "spec", toks |-> <<<<2, 4>>>>, pad |-> FALSE, text |-> <<>>],
    [kind |-> "spec", toks |-> <<<<1, 3>>, <<7>>>>, pad |-> FALSE, text |-> <<>>],
    [kind |-> "spec", toks |-> <<<<12>>>>, pad |-> FALSE, text |-> <<>>],
    [kind |-> "spec", toks |-> <<<<3>>, <<1, 3>>>>, pad |-> FALSE, text |-> <<>>],
    [kind |-> "spec", toks |-> <<<<2>>, <<4, 6>>>>, pad |-> TRUE, text |-> <<>>],
    [kind |-> "spec", toks |-> <<<<5, 5>>>>, pad |-> FALSE, text |-> <<>>],
    [kind |-> "spec", toks |-> <<<<9, 3>>>>, pad |-> FALSE, text |-> <<>>],
    [kind |-> "spec", toks |-> <<<<0, 2>>, <<5, 5>>>>, pad |-> FALSE, text |-> <<>>],
    [kind |-> "spec", toks |-> <<<<0, 8192>>>>, pad |-> FALSE, text |-> <<>>],
    [kind |-> "spec", toks |-> <<<<8>>, <<9, 3>>>>, pad |-> TRUE, text |-> <<>>],
    [kind |-> "text", toks |-> <<>>, pad |-> FALSE, text |-> <<"a">>],
    [kind |-> "text", toks |-> <<>>, pad |-> FALSE, text |-> <<>>],
    [kind |-> "text", toks |-> <<>>, pad |-> FALSE, text |-> <<"-", "3">>],
    [kind |-> "text", toks |-> <<>>, pad |-> FALSE, text |-> <<"1", "-", "3", "a">>],
    [kind |-> "text", toks |-> <<>>, pad |-> FALSE, text |-> <<"1", "-">>],
    [kind |-> "text", toks |-> <<>>, pad |-> FALSE, text |-> <<"3", ",">>],
    [kind |-> "text", toks |-> <<>>, pad |-> FALSE, text |-> <<"+", "7">>],
    [kind |-> "text", toks |-> <<>>, pad |-> FALSE, text |-> <<"1", "-", " ", "3">>],
    [kind |-> "text", toks |-> <<>>, pad |-> FALSE, text |-> <<"1", " ", "-", "3">>] }

\* the Go string of a pool entry
TextOf(item) ==
  IF item.kind = "spec" THEN RenderTokens(item.toks, item.pad) ELSE item.text

RECURSIVE ListsOf(_, _)
ListsOf(S, n) ==
  IF n = 0 THEN { <<>> }
  ELSE LET shorter == ListsOf(S, n - 1)
       IN  shorter \cup { Append(l, x) : l \in { q \in shorter : Len(q) = n - 1 }, x \in S }

\* the cores argument of newMsrServiceWithFs: nil, or a list of strings
CoresArgs ==
  { [nil |-> TRUE, items |-> <<>>] }
    \cup { [nil |-> FALSE, items |-> l] : l \in ListsOf(SpecPool, MaxSpecs) }

\* specifications that stand for about as many ids as the ceiling allows
CapacityPool ==
  { [kind |-> "spec", toks |-> <<<<0, 8191>>>>, pad |-> FALSE, text |-> <<>>],
    [kind |-> "spec", toks |-> <<<<0, 8190>>>>, pad |-> FALSE, text |-> <<>>],
    [kind |-> "spec", toks |-> <<<<0, 8192>>>>, pad |-> FALSE, text |-> <<>>],
    [kind |-> "spec", toks |-> <<<<12>>>>, pad |-> FALSE, text |-> <<>>],
    [kind |-> "spec", toks |-> <<<<1>>, <<3>>>>, pad |-> FALSE, text |-> <<>>],
    [kind |-> "spec", toks |-> <<<<0, 4095>>>>, pad |-> FALSE, text |-> <<>>],
    [kind |-> "spec", toks |-> <<<<0, 4096>>>>, pad |-> FALSE, text |-> <<>>],
    [kind |-> "spec", toks |-> <<<<4096, 8191>>>>, pad |-> FALSE, text |-> <<>>] }

\* the lists of such specifications
CapacityArgs ==
  { [nil |-> TRUE, items |-> <<>>] }
    \cup { [nil |-> FALSE, items |-> l] : l \in ListsOf(CapacityPool, MaxSpecs) }

\* a []int
NilSlice == [nil |-> TRUE, elems |-> <<>>]

\* append(slice, values...)
AppendAll(slice, values) == [nil |-> FALSE, elems |-> slice.elems \o values]

\* the empty strings between separators are left out
RECURSIVE SplitNonEmpty(_, _)
SplitNonEmpty(s, sep) ==
  IF s = <<>> THEN <<>>
  ELSE IF \E i \in 1..Len(s) : s[i] = sep
    THEN LET i == CHOOSE i \in 1..Len(s) : s[i] = sep /\ \A j \in 1..(i - 1) : s[j] # sep
         IN  (IF i = 1 THEN <<>> ELSE << SubSeq(s, 1, i - 1) >>)
               \o SplitNonEmpty(SubSeq(s, i + 1, Len(s)), sep)
    ELSE << s >>

\* strings.Split(s, sep)
RECURSIVE Split(_, _)
Split(s, sep) ==
  IF \E i \in 1..Len(s) : s[i] = sep
    THEN LET i == CHOOSE i \in 1..Len(s) : s[i] = sep /\ \A j \in 1..(i - 1) : s[j] # sep
         IN  << SubSeq(s, 1, i - 1) >> \o Split(SubSeq(s, i + 1, Len(s)), sep)
    ELSE << s >>

\* strings.TrimSpace(s)
RECURSIVE TrimSpace(_)
TrimSpace(s) ==
  IF s = <<>> THEN s
  ELSE IF s[1] = " " THEN TrimSpace(Tail(s))
  ELSE IF s[Len(s)] = " " THEN TrimSpace(SubSeq(s, 1, Len(s) - 1))
  ELSE s

\* the value of a run of decimal digits
RECURSIVE DigitsValue(_)
DigitsValue(ds) ==
  IF ds = <<>> THEN 0
  ELSE DigitsValue(SubSeq(ds, 1, Len(ds) - 1)) * 10 + DigitVal(ds[Len(ds)])

IsSpace(c) == c = " "

\* the first index from i on that holds no space (Len(s) + 1 if there is none)
SkipSpaces(s, i) ==
  IF \E j \in i..Len(s) : ~IsSpace(s[j])
    THEN CHOOSE j \in i..Len(s) : ~IsSpace(s[j]) /\ \A h \in i..(j - 1) : IsSpace(s[h])
    ELSE Len(s) + 1

\* the first index from i on that holds no digit (Len(s) + 1 if there is none)
SkipDigits(s, i) ==
  IF \E j \in i..Len(s) : ~IsDigit(s[j])
    THEN CHOOSE j \in i..Len(s) : ~IsDigit(s[j]) /\ \A h \in i..(j - 1) : IsDigit(s[h])
    ELSE Len(s) + 1

\* fmt: the verb %d for a uint operand, scanning s from index i: leading
\* spaces are skipped, then at least one digit is needed; no sign is taken
ScanUint(s, i) ==
  LET from == SkipSpaces(s, i)
      to   == SkipDigits(s, from)
  IN  IF to = from
        THEN [ok |-> FALSE, val |-> 0, next |-> from]
        ELSE [ok |-> TRUE, val |-> DigitsValue(SubSeq(s, from, to - 1)), next |-> to]

\* n, err := fmt.Sscanf(id, "%d-%d", &start, &end): what follows the second
\* number is not looked at
Sscanf(id) ==
  LET first == ScanUint(id, 1) IN
  IF ~first.ok THEN [n |-> 0, ok |-> FALSE, start |-> 0, end |-> 0]
  ELSE IF first.next > Len(id) \/ id[first.next] # "-"
    THEN [n |-> 1, ok |-> FALSE, start |-> first.val, end |-> 0]
  ELSE LET second == ScanUint(id, first.next + 1) IN
       IF ~second.ok THEN [n |-> 1, ok |-> FALSE, start |-> first.val, end |-> 0]
       ELSE [n |-> 2, ok |-> TRUE, start |-> first.val, end |-> second.val]

\* strconv.Atoi(id): an optional sign, then digits only
Atoi(id) ==
  LET signed == id # <<>> /\ id[1] \in {"+", "-"}
      ds     == IF signed THEN Tail(id) ELSE id
  IN  IF ds = <<>> \/ \E i \in 1..Len(ds) : ~IsDigit(ds[i])
        THEN [ok |-> FALSE, num |-> 0]
        ELSE [ok |-> TRUE,
              num |-> IF signed /\ id[1] = "-" THEN 0 - DigitsValue(ds) ELSE DigitsValue(ds)]

\* what parseIDs returns: the ids, the error and the token it names
ParseFailed(kind, id) == [ids |-> NilSlice, err |-> kind, tok |-> id]

\* a range is refused only when it is inverted
RangeRefusedOnlyInverted(start, end) == start > end

\* lines 384-386: the range is refused
RangeRefused(start, end) == start >= end

\* the ceiling itself is refused: len(result)+1 >= maxIDsSize
AppendRangeCeilingRefused(result, start, end) ==
  IF Len(result.elems) + (end - start + 1) >= maxIDsSize
    THEN [ok |-> FALSE, slice |-> NilSlice]
    ELSE [ok |-> TRUE,
          slice |-> AppendAll(result, [i \in 1..(end - start + 1) |-> start + i - 1])]

\* the loop stops before end: for ; start < end; start++
AppendRangeHalfOpen(result, start, end) ==
  IF Len(result.elems) + (end - start) > maxIDsSize
    THEN [ok |-> FALSE, slice |-> NilSlice]
    ELSE [ok |-> TRUE,
          slice |-> AppendAll(result, [i \in 1..(end - start) |-> start + i - 1])]

\* lines 387-392: for ; start <= end; start++ appends start..end one by one
\* and gives up at the first id that does not fit in maxIDsSize
AppendRange(result, start, end) ==
  IF Len(result.elems) + (end - start + 1) > maxIDsSize
    THEN [ok |-> FALSE, slice |-> NilSlice]
    ELSE [ok |-> TRUE,
          slice |-> AppendAll(result, [i \in 1..(end - start + 1) |-> start + i - 1])]

\* lines 378-404: the tokens ids[j..] of one string, then the strings after i
RECURSIVE ParseFrom(_, _, _, _)
ParseFrom(all, i, j, result) ==
  IF i > Len(all) THEN [ids |-> result, err |-> "nil", tok |-> <<>>]
  ELSE LET ids == Split(all[i], ",") IN
    IF j > Len(ids) THEN ParseFrom(all, i + 1, 1, result)
    ELSE LET id == TrimSpace(ids[j])
             sc == Sscanf(id)
         IN
      IF sc.ok /\ sc.n = 2
        THEN IF RangeRefused(sc.start, sc.end) THEN ParseFailed("format", id)
             ELSE LET app == AppendRange(result, sc.start, sc.end) IN
                  IF ~app.ok THEN ParseFailed("capacity", id)
                  ELSE ParseFrom(all, i, j + 1, app.slice)
        ELSE LET a == Atoi(id) IN
             IF ~a.ok THEN ParseFailed("format", id)
             ELSE IF Len(result.elems) + 1 > maxIDsSize THEN ParseFailed("capacity", id)
             ELSE ParseFrom(all, i, j + 1, AppendAll(result, << a.num >>))

\* parseIDs(allIDsStrings)
parseIDs(allIDsStrings) == ParseFrom(allIDsStrings, 1, 1, NilSlice)

\* lines 413-418: one entry of the loop; keys is the map of the ids met
DedupEntry(acc, entry) ==
  IF entry \notin acc.keys
    THEN [keys |-> acc.keys \cup {entry},
          result |-> AppendAll(acc.result, << entry >>),
          duplicates |-> acc.duplicates]
    ELSE [acc EXCEPT !.duplicates = AppendAll(acc.duplicates, << entry >>)]

\* lines 412-419 for the entries lo..hi, in order: those of the first half,
\* then those of the second half (the test on the keys only makes the first
\* half be worked out before the second is begun)
RECURSIVE DedupRange(_, _, _, _)
DedupRange(intSlice, lo, hi, acc) ==
  IF lo > hi THEN acc
  ELSE IF lo = hi THEN DedupEntry(acc, intSlice[lo])
  ELSE LET mid  == (lo + hi) \div 2
           left == DedupRange(intSlice, lo, mid, acc)
       IN  IF left.keys = {} THEN left
           ELSE DedupRange(intSlice, mid + 1, hi, left)

\* keys[entry] is never set: every entry is taken for new
removeDuplicateValuesKeepsAll(intSlice) ==
  [result |-> IF intSlice.elems = <<>> THEN NilSlice ELSE AppendAll(NilSlice, intSlice.elems),
   duplicates |-> NilSlice]

\* removeDuplicateValues(intSlice)
removeDuplicateValues(intSlice) ==
  LET done == DedupRange(intSlice.elems, 1, Len(intSlice.elems),
                         [keys |-> {}, result |-> NilSlice, duplicates |-> NilSlice])
  IN  [result |-> done.result, duplicates |-> done.duplicates]

VARIABLES
  coresArg,     \* the cores argument of parseCores
  parsePc,      \* where parseCores stands
  parsed,       \* what parseIDs returned
  dedup,        \* what removeDuplicateValues returned
  parsedCores   \* what parseCores returned

parseVars == << coresArg, parsePc, parsed, dedup, parsedCores >>

NoParse == [ids |-> NilSlice, err |-> "nil", tok |-> <<>>]
NoDedup == [result |-> NilSlice, duplicates |-> NilSlice]

\* the strings parseCores is given
CoresStrings == [i \in 1..Len(coresArg.items) |-> TextOf(coresArg.items[i])]

\* parseCores is about to run on the argument arg
ParseInit(arg) ==
  /\ coresArg = arg
  /\ parsePc = "start"
  /\ parsed = NoParse
  /\ dedup = NoDedup
  /\ parsedCores = NilSlice

\* lines 342-349: nil or empty cores: all cores are configured
SelectAll ==
  /\ parsePc = "start"
  /\ coresArg.nil \/ Len(coresArg.items) = 0
  /\ parsedCores' = NilSlice
  /\ parsePc' = "done"
  /\ UNCHANGED << coresArg, parsed, dedup >>

\* line 362: ids, err = parseIDs(ranges)
CallParseIDs ==
  /\ parsePc = "start"
  /\ ~coresArg.nil /\ Len(coresArg.items) > 0
  /\ parsed' = parseIDs(CoresStrings)
  /\ parsePc' = "parsed"
  /\ UNCHANGED << coresArg, dedup, parsedCores >>

\* on an error an empty list of cores is returned instead of nil
ParseErrorSelectsNone ==
  /\ parsePc = "parsed"
  /\ parsed.err # "nil"
  /\ parsedCores' = [nil |-> FALSE, elems |-> <<>>]
  /\ parsePc' = "done"
  /\ UNCHANGED << coresArg, parsed, dedup >>

\* lines 363-365, 351-354: the error is logged and all cores are configured
ParseErrorSelectsAll ==
  /\ parsePc = "parsed"
  /\ parsed.err # "nil"
  /\ parsedCores' = NilSlice
  /\ parsePc' = "done"
  /\ UNCHANGED << coresArg, parsed, dedup >>

\* line 366: ids, duplicatedIDs = removeDuplicateValues(ids)
CallRemoveDuplicates ==
  /\ parsePc = "parsed"
  /\ parsed.err = "nil"
  /\ dedup' = removeDuplicateValues(parsed.ids)
  /\ parsePc' = "deduped"
  /\ UNCHANGED << coresArg, parsed, parsedCores >>

\* lines 370, 355: the ids without duplicates are returned
ReturnCores ==
  /\ parsePc = "deduped"
  /\ parsedCores' = dedup.result
  /\ parsePc' = "done"
  /\ UNCHANGED << coresArg, parsed, dedup >>

ParseStep ==
  \/ SelectAll
  \/ CallParseIDs
  \/ ParseErrorSelectsAll
  \/ CallRemoveDuplicates
  \/ ReturnCores

(***************************************************************************)
(* The environment: cores of the store, callers, register-file contents.  *)
(***************************************************************************)
Cores == {"0", "1"}

Callers == {1, 2}

\* the register-file contents a call may be given: RawAt(1, _) and RawAt(2, _)
SnapshotIds == {1, 2}

OffsetIndex(off) == CHOOSE i \in 1..Len(msrOffsets) : msrOffsets[i] = off

\* the 64-bit word the register file with contents s holds at offset off
RawAt(s, off) ==
  LET i == OffsetIndex(off) IN
  CASE off = throttleTemperatureLocation -> << 4660 + s, 427 + 16 * s, 0, 0 >>
    [] off = temperatureLocation         -> << 4660 + s, 229 + 16 * s, 34952, 0 >>
    [] s % 3 = 1                          -> << 10 * i, i, 0, 0 >>
    [] s % 3 = 2                          -> << 65535 - i, 65535, 65535, 65535 >>
    [] OTHER                              -> << i, 7 * i, s, 1 >>

(***************************************************************************)
(* msrData                                                                 *)
(***************************************************************************)
CounterFields == {"c3", "c6", "c7", "mperf", "aperf", "timeStampCounter"}

\* the offset each delta-tracked field is read from
FieldOffset(f) ==
  CASE f = "c3"    -> c3StateResidencyLocation
    [] f = "c6"    -> c6StateResidencyLocation
    [] f = "c7"    -> c7StateResidencyLocation
    [] f = "mperf" -> maximumFrequencyClockCountLocation
    [] f = "aperf" -> actualFrequencyClockCountLocation
    [] f = "timeStampCounter" -> timestampCounterLocation

\* setCPUCores: a freshly created entry
ZeroData ==
  [ cur   |-> [f \in CounterFields |-> U64Zero],
    delta |-> [f \in CounterFields |-> U64Zero],
    throttleTemp |-> 0,
    temp  |-> 0 ]

VARIABLES
  cpuCoresData,   \* m.cpuCoresData: core -> msrData
  callPc,         \* caller -> where its openAndReadMsr call stands
  callCore,       \* caller -> the core argument of its call
  reader,         \* caller -> contents of the register file its call reads
  taskPc,         \* caller -> offset -> "none", "run" or "done": the goroutine of that offset
  chClosed,       \* caller -> offset -> number of close(ch) executed
  newVal,         \* caller -> offset -> value the caller received (newC3, ...)
  pos,            \* caller -> index in recvOrder of the pending receive
  gErr,           \* caller -> the errgroup's first recorded error
  ctxDone,        \* caller -> the errgroup context is cancelled
  commitPc,       \* caller -> next statement of lines 241-257
  result,         \* caller -> what the last call returned
  pre,            \* caller -> the core's msrData when the call started
  readFailed,     \* caller -> some read of the call returned an error
  abandoned,      \* caller -> some goroutine of the call returned ctx.Err()
  nCalls,         \* calls started so far
  lastOK,         \* core -> contents read by the latest successful refresh (0: none)
  prevOK          \* core -> contents read by the successful refresh before it (0: none)

msrVars ==
  << cpuCoresData, callPc, callCore, reader, taskPc, chClosed, newVal, pos, gErr,
     ctxDone, commitPc, result, pre, readFailed, abandoned, nCalls, lastOK, prevOK >>

\* the locals of one readDataFromMsr call
NoTasks == [o \in Offsets |-> "none"]
NoValues == [o \in Offsets |-> U64Zero]
NoCloses == [o \in Offsets |-> 0]

(***************************************************************************)
(* newMsrServiceWithFs / setCPUCores: the state after construction.        *)
(***************************************************************************)
\* no openAndReadMsr call has been made
NoCalls ==
  /\ callPc = [k \in Callers |-> "idle"]
  /\ callCore = [k \in Callers |-> "0"]
  /\ reader = [k \in Callers |-> 1]
  /\ taskPc = [k \in Callers |-> NoTasks]
  /\ chClosed = [k \in Callers |-> NoCloses]
  /\ newVal = [k \in Callers |-> NoValues]
  /\ pos = [k \in Callers |-> 1]
  /\ gErr = [k \in Callers |-> "nil"]
  /\ ctxDone = [k \in Callers |-> FALSE]
  /\ commitPc = [k \in Callers |-> 0]
  /\ result = [k \in Callers |-> "none"]
  /\ pre = [k \in Callers |-> ZeroData]
  /\ readFailed = [k \in Callers |-> FALSE]
  /\ abandoned = [k \in Callers |-> FALSE]
  /\ nCalls = 0

\* no refresh of the cores of S has succeeded
NoHistory(S) ==
  /\ lastOK = [c \in S |-> 0]
  /\ prevOK = [c \in S |-> 0]

\* the store of a service made on a system with the cores of Cores
MsrInit ==
  /\ cpuCoresData = [c \in Cores |-> ZeroData]
  /\ NoCalls
  /\ NoHistory(Cores)

(***************************************************************************)
(* newMsrServiceWithFs: parseCores, then setCPUCores.  The glob of line    *)
(* 284 fails or returns the cpu<N> directories of the system.              *)
(***************************************************************************)
VARIABLES
  cpuPaths,     \* what getStringsMatchingPatternOnPath returned
  setupPc       \* "parse": parseCores is running; "built": the service is made

setupVars == << cpuPaths, setupPc >>

\* the numbers of the cores a system may have
SystemCoreIDs == {0, 1, 3, 12}

cpuPrefix == << "c", "p", "u" >>

(***************************************************************************)
(* isMsrLoaded, and the register files it meets: whether the file of a     *)
(* core opens, and the offsets at which reading it fails.                  *)
(***************************************************************************)
VARIABLES
  probePc,      \* "idle", "loop" (line 76), "call" (line 77) or "done"
  tried,        \* the cores the loop of isMsrLoaded has gone through
  probeResult,  \* what isMsrLoaded returned
  openable,     \* core -> checkFile and os.Open succeed on the core's file
  badOffsets,   \* core -> the offsets at which a read of the file fails
  storeBefore   \* m.cpuCoresData when isMsrLoaded was called

probeVars == << probePc, tried, probeResult, openable, badOffsets, storeBefore >>

(***************************************************************************)
(* readSingleMsr(core, msr)                                                *)
(***************************************************************************)
VARIABLES
  singlePc,     \* "idle", "called", "opened" (line 172), "read" (line 194) or "done"
  singleCore,   \* the argument core
  singleMsr,    \* the argument msr
  msrAddress,   \* the local msrAddress
  singleReads,  \* the offsets readFileAtOffsetToUint64 was called with, in order
  singleValue,  \* the value returned
  singleErr     \* the error returned: "nil", "resource", "name" or "read"

singleVars ==
  << singlePc, singleCore, singleMsr, msrAddress, singleReads, singleValue, singleErr >>

vars == << msrVars, parseVars, setupVars, probeVars, singleVars >>

\* the cores of the systems isMsrLoaded is run on
ProbeCores == {"0", "1", "2"}

\* the sets of offsets that may be unreadable in a file
BadOffsetSets ==
  { {}, {c6StateResidencyLocation, timestampCounterLocation} }

\* readSingleMsr is not running
NoSingle ==
  /\ singlePc = "idle"
  /\ singleCore = ""
  /\ singleMsr = ""
  /\ msrAddress = 0
  /\ singleReads = << >>
  /\ singleValue = U64Zero
  /\ singleErr = "nil"

\* isMsrLoaded is not running
NoProbe ==
  /\ probePc = "idle"
  /\ tried = {}
  /\ probeResult = FALSE
  /\ openable = [c \in Cores |-> TRUE]
  /\ badOffsets = [c \in Cores |-> {}]
  /\ storeBefore = [c \in {} |-> ZeroData]

\* filepath.Base of the directory of core n
CPUDir(n) == cpuPrefix \o ToDigits(n)

\* what the glob can return: an error, or the directories of some cores
GlobOutcomes ==
  { [err |-> TRUE, paths |-> {}] }
    \cup { [err |-> FALSE, paths |-> { CPUDir(n) : n \in S }] : S \in SUBSET SystemCoreIDs }

NoGlob == [err |-> FALSE, paths |-> {}]

\* strings.TrimPrefix(s, prefix)
TrimPrefix(s, prefix) ==
  IF Len(s) >= Len(prefix) /\ SubSeq(s, 1, Len(prefix)) = prefix
    THEN SubSeq(s, Len(prefix) + 1, Len(s))
    ELSE s

\* Contains(slice, value): some element of the slice is the value
Contains(slice, value) == \E i \in 1..Len(slice.elems) : slice.elems[i] = value

\* every core of the system is kept, whatever the filter
SkippedNever(cpuCores, core) == FALSE

\* lines 295-300: the core is left out
Skipped(cpuCores, core) == ~cpuCores.nil /\ ~Contains(cpuCores, Atoi(core).num)

\* lines 293-317: the entries made for the paths found
CoresKept(cpuCores, paths) ==
  { core \in { TrimPrefix(path, cpuPrefix) : path \in paths } : ~Skipped(cpuCores, core) }

\* the service has not been made yet
NotBuilt ==
  /\ cpuPaths = NoGlob
  /\ setupPc = "parse"

\* the service was made on a system with the cores of Cores
Built ==
  /\ cpuPaths = [err |-> FALSE, paths |-> { CPUDir(0), CPUDir(1) }]
  /\ setupPc = "built"

\* lines 324-338: setCPUCores with m.cpuCores = parsedCores; its error is
\* logged and the service is returned
SetCPUCores(glob) ==
  /\ setupPc = "parse"
  /\ parsePc = "done"
  /\ cpuPaths' = glob
  /\ cpuCoresData' =
       IF glob.err THEN [core \in {} |-> ZeroData]
       ELSE [core \in CoresKept(parsedCores, glob.paths) |-> ZeroData]
  /\ setupPc' = "built"
  /\ UNCHANGED << callPc, callCore, reader, taskPc, chClosed, newVal, pos, gErr,
                  ctxDone, commitPc, result, pre, readFailed, abandoned, nCalls,
                  lastOK, prevOK >>
  /\ UNCHANGED << parseVars, probeVars, singleVars >>

(***************************************************************************)
(* openAndReadMsr(core)                                                    *)
(***************************************************************************)
CanStart(k) == callPc[k] \in {"idle", "done"} /\ nCalls < MaxRefresh

\* checkFile or os.Open fails: the call returns before reading anything
OpenFails(k, core) ==
  /\ CanStart(k)
  /\ nCalls' = nCalls + 1
  /\ callCore' = [callCore EXCEPT ![k] = core]
  /\ pre' = [pre EXCEPT ![k] = cpuCoresData[core]]
  /\ result' = [result EXCEPT ![k] = "openErr"]
  /\ callPc' = [callPc EXCEPT ![k] = "done"]
  /\ readFailed' = [readFailed EXCEPT ![k] = FALSE]
  /\ abandoned' = [abandoned EXCEPT ![k] = FALSE]
  /\ UNCHANGED << cpuCoresData, reader, taskPc, chClosed, newVal, pos, gErr, ctxDone,
                  commitPc, lastOK, prevOK >>

\* the file opens; readDataFromMsr makes the errgroup and the 8 channels and
\* starts one goroutine per offset (lines 203-226)
StartRead(k, core, s) ==
  /\ CanStart(k)
  /\ nCalls' = nCalls + 1
  /\ callCore' = [callCore EXCEPT ![k] = core]
  /\ reader' = [reader EXCEPT ![k] = s]
  /\ pre' = [pre EXCEPT ![k] = cpuCoresData[core]]
  /\ result' = [result EXCEPT ![k] = "none"]
  /\ callPc' = [callPc EXCEPT ![k] = "recv"]
  /\ taskPc' = [taskPc EXCEPT ![k] = [o \in Offsets |-> "run"]]
  /\ readFailed' = [readFailed EXCEPT ![k] = FALSE]
  /\ abandoned' = [abandoned EXCEPT ![k] = FALSE]
  /\ UNCHANGED << cpuCoresData, chClosed, newVal, pos, gErr, ctxDone, commitPc,
                  lastOK, prevOK >>

(***************************************************************************)
(* The goroutine of one offset: readValueFromFileAtOffset, the deferred    *)
(* close(ch) and the errgroup's handling of the returned error.  The read  *)
(* touches nothing shared, so each goroutine is one step, taken at the     *)
(* point where it synchronises with the others: its read fails, it hands   *)
(* its value to the caller, or it finds the context cancelled.             *)
(***************************************************************************)
\* every non-nil error is recorded, the last one stays
RecordsEvery(k, err) == err # "nil"

\* errgroup.Go: the first non-nil error is recorded and cancels the context
RecordsFirst(k, err) == err # "nil" /\ gErr[k] = "nil"

\* the channel is left open
CloseForgotten(n) == n

\* line 216: defer close(ch); n counts the closes of the channel so far
DeferredClose(n) == n + 1

\* the goroutine returns err: close(ch), then the errgroup sees err
GoReturn(k, off, err) ==
  /\ chClosed' = [chClosed EXCEPT ![k][off] = DeferredClose(@)]
  /\ gErr' = [gErr EXCEPT ![k] = IF RecordsFirst(k, err) THEN err ELSE @]
  /\ ctxDone' = [ctxDone EXCEPT ![k] = @ \/ RecordsFirst(k, err)]
  /\ taskPc' = [taskPc EXCEPT ![k][off] = "done"]

\* m.fs.readFileAtOffsetToUint64 returns an error (lines 263-266, 219-221)
ReadFails(k, off) ==
  /\ taskPc[k][off] = "run"
  /\ GoReturn(k, off, "read")
  /\ readFailed' = [readFailed EXCEPT ![k] = TRUE]
  /\ UNCHANGED << cpuCoresData, callPc, callCore, reader, newVal, pos, commitPc,
                  result, pre, abandoned, nCalls, lastOK, prevOK >>

\* the receive the caller is blocked in (lines 228-235)
Receiving(k, off) == callPc[k] = "recv" /\ recvOrder[pos[k]] = off

\* after a receive the caller moves to the next receive, or to g.Wait()
AfterRecv(k) ==
  IF pos[k] = Len(recvOrder)
    THEN /\ callPc' = [callPc EXCEPT ![k] = "wait"]
         /\ pos' = pos
    ELSE /\ pos' = [pos EXCEPT ![k] = pos[k] + 1]
         /\ callPc' = callPc

\* the value the goroutine sends: the one it read at its own offset
SentValue(k, off) == RawAt(reader[k], off)

\* the read succeeds and select takes case ch <- value, together with the
\* caller's receive from that channel (line 272)
SendValue(k, off) ==
  /\ taskPc[k][off] = "run"
  /\ Receiving(k, off)
  /\ newVal' = [newVal EXCEPT ![k][off] = SentValue(k, off)]
  /\ AfterRecv(k)
  /\ GoReturn(k, off, "nil")
  /\ UNCHANGED << cpuCoresData, callCore, reader, commitPc, result, pre, readFailed,
                  abandoned, nCalls, lastOK, prevOK >>

\* the read succeeds and select takes case <-ctx.Done() (lines 270-271)
Abandon(k, off) ==
  /\ taskPc[k][off] = "run"
  /\ ctxDone[k]
  /\ GoReturn(k, off, "cancel")
  /\ abandoned' = [abandoned EXCEPT ![k] = TRUE]
  /\ UNCHANGED << cpuCoresData, callPc, callCore, reader, newVal, pos, commitPc,
                  result, pre, readFailed, nCalls, lastOK, prevOK >>

(***************************************************************************)
(* readDataFromMsr: the caller                                             *)
(***************************************************************************)
\* a receive from a closed channel yields the zero value
RecvClosed(k) ==
  /\ callPc[k] = "recv"
  /\ chClosed[k][recvOrder[pos[k]]] > 0
  /\ newVal' = [newVal EXCEPT ![k][recvOrder[pos[k]]] = U64Zero]
  /\ AfterRecv(k)
  /\ UNCHANGED << cpuCoresData, callCore, reader, taskPc, chClosed, gErr, ctxDone,
                  commitPc, result, pre, readFailed, abandoned, nCalls, lastOK, prevOK >>

\* g.Wait() returns once some goroutine has returned
SomeTaskDone(k) == \E o \in Offsets : taskPc[k][o] = "done"

\* g.Wait() returns once every goroutine has returned
AllTasksDone(k) == \A o \in Offsets : taskPc[k][o] = "done"

\* the error of g.Wait() is dropped
WaitErrorIgnored(k) == FALSE

\* line 237: err := g.Wait(); err != nil
WaitFailed(k) == gErr[k] # "nil"

\* the locals of the call go away as it returns
DropLocals(k) ==
  /\ taskPc' = [taskPc EXCEPT ![k] = NoTasks]
  /\ chClosed' = [chClosed EXCEPT ![k] = NoCloses]
  /\ newVal' = [newVal EXCEPT ![k] = NoValues]
  /\ pos' = [pos EXCEPT ![k] = 1]
  /\ gErr' = [gErr EXCEPT ![k] = "nil"]
  /\ ctxDone' = [ctxDone EXCEPT ![k] = FALSE]
  /\ commitPc' = [commitPc EXCEPT ![k] = 0]

\* g.Wait() returns an error: readDataFromMsr and openAndReadMsr return it wrapped
WaitErr(k) ==
  /\ callPc[k] = "wait"
  /\ AllTasksDone(k)
  /\ WaitFailed(k)
  /\ result' = [result EXCEPT ![k] = "readErr"]
  /\ callPc' = [callPc EXCEPT ![k] = "done"]
  /\ DropLocals(k)
  /\ UNCHANGED << cpuCoresData, callCore, reader, pre, readFailed, abandoned, nCalls,
                  lastOK, prevOK >>

\* g.Wait() returns nil (and cancels the context)
WaitOk(k) ==
  /\ callPc[k] = "wait"
  /\ AllTasksDone(k)
  /\ ~WaitFailed(k)
  /\ ctxDone' = [ctxDone EXCEPT ![k] = TRUE]
  /\ callPc' = [callPc EXCEPT ![k] = "commit"]
  /\ commitPc' = [commitPc EXCEPT ![k] = 1]
  /\ UNCHANGED << cpuCoresData, callCore, reader, taskPc, chClosed, newVal, pos, gErr,
                  result, pre, readFailed, abandoned, nCalls, lastOK, prevOK >>

\* the order lines 241-246 and 248-253 go through the counters
commitOrder == << "c3", "c6", "c7", "mperf", "aperf", "timeStampCounter" >>

NumCounters == Len(commitOrder)

\* lines 241-246: m.cpuCoresData[core].<f>Delta = new<F> - m.cpuCoresData[core].<f>
StoreDelta(d, f, new) == [d EXCEPT !.delta[f] = SubU64(new, d.cur[f])]

\* the current value is not stored
StoreCurrentSkipped(d, f, new) == d

\* lines 248-253: m.cpuCoresData[core].<f> = new<F>
StoreCurrent(d, f, new) == [d EXCEPT !.cur[f] = new]

\* line 255
StoreThrottleTemp(d, new) == [d EXCEPT !.throttleTemp = ThrottleTempOf(new)]

\* line 257
StoreTemp(d, new) == [d EXCEPT !.temp = TempOf(new)]

\* the statement of lines 241-257 that commitPc = n stands for
CommitStatement(d, n, nv) ==
  IF n <= NumCounters
    THEN StoreDelta(d, commitOrder[n], nv[FieldOffset(commitOrder[n])])
  ELSE IF n <= 2 * NumCounters
    THEN StoreCurrent(d, commitOrder[n - NumCounters],
                      nv[FieldOffset(commitOrder[n - NumCounters])])
  ELSE IF n = 2 * NumCounters + 1
    THEN StoreThrottleTemp(d, nv[throttleTemperatureLocation])
    ELSE StoreTemp(d, nv[temperatureLocation])

LastCommitPc == 2 * NumCounters + 2

\* every call writes the entry of the same core
CommitTargetFixed(k) == "0"

\* lines 241-257: the entry written is m.cpuCoresData[core]
CommitTarget(k) == callCore[k]

\* one statement of lines 241-257; after the last one the call returns nil
Commit(k) ==
  /\ callPc[k] = "commit"
  /\ cpuCoresData' = [cpuCoresData EXCEPT ![CommitTarget(k)] =
                         CommitStatement(@, commitPc[k], newVal[k])]
  /\ IF commitPc[k] = LastCommitPc
       THEN /\ callPc' = [callPc EXCEPT ![k] = "done"]
            /\ result' = [result EXCEPT ![k] = "ok"]
            /\ DropLocals(k)
            /\ prevOK' = [prevOK EXCEPT ![callCore[k]] = lastOK[callCore[k]]]
            /\ lastOK' = [lastOK EXCEPT ![callCore[k]] = reader[k]]
       ELSE /\ commitPc' = [commitPc EXCEPT ![k] = commitPc[k] + 1]
            /\ UNCHANGED << callPc, result, prevOK, lastOK, taskPc, chClosed, newVal,
                            pos, gErr, ctxDone >>
  /\ UNCHANGED << callCore, reader, pre, readFailed, abandoned, nCalls >>

\* every step of one caller's openAndReadMsr
CallStep(k) ==
  \/ \E core \in Cores : OpenFails(k, core)
  \/ \E core \in Cores, s \in SnapshotIds : StartRead(k, core, s)
  \/ \E off \in Offsets : ReadFails(k, off)
  \/ \E off \in Offsets : SendValue(k, off)
  \/ \E off \in Offsets : Abandon(k, off)
  \/ RecvClosed(k)
  \/ WaitErr(k)
  \/ WaitOk(k)
  \/ Commit(k)

\* the service was made with cores = nil
ParsedNil ==
  /\ coresArg = [nil |-> TRUE, items |-> <<>>]
  /\ parsePc = "done"
  /\ parsed = NoParse
  /\ dedup = NoDedup
  /\ parsedCores = NilSlice

Init == MsrInit /\ ParsedNil /\ Built /\ NoProbe /\ NoSingle

\* one caller: refreshes run one after the other
Next == CallStep(1) /\ UNCHANGED << parseVars, setupVars, probeVars, singleVars >>

\* parseCores on every argument of CoresArgs
ParseSpecInit == MsrInit /\ NotBuilt /\ NoProbe /\ NoSingle /\ \E arg \in CoresArgs : ParseInit(arg)

ParseNext == ParseStep /\ UNCHANGED << msrVars, setupVars, probeVars, singleVars >>

SpecParse == ParseSpecInit /\ [][ParseNext]_vars

\* parseCores on the lists of CapacityArgs
CapacityInit == MsrInit /\ NotBuilt /\ NoProbe /\ NoSingle /\ \E arg \in CapacityArgs : ParseInit(arg)

SpecCapacity == CapacityInit /\ [][ParseNext]_vars

\* newMsrServiceWithFs on every argument of CoresArgs and every outcome of
\* the glob
SetupInit ==
  /\ cpuCoresData = [core \in {} |-> ZeroData]
  /\ NoCalls
  /\ NoHistory(Cores)
  /\ NotBuilt
  /\ NoProbe
  /\ NoSingle
  /\ \E arg \in CoresArgs : ParseInit(arg)

SetupNext ==
  \/ ParseNext
  \/ \E glob \in GlobOutcomes : SetCPUCores(glob)

SpecSetup == SetupInit /\ [][SetupNext]_vars

Spec == Init /\ [][Next]_vars

\* the steps of a call that need no read to fail
ProgressStep(k) ==
  /\ \/ \E off \in Offsets : SendValue(k, off)
     \/ \E off \in Offsets : Abandon(k, off)
     \/ RecvClosed(k)
     \/ WaitErr(k)
     \/ WaitOk(k)
     \/ Commit(k)
  /\ UNCHANGED << parseVars, setupVars, probeVars, singleVars >>

\* The Go scheduler runs a goroutine that can take a step, and every read
\* returns.  A read returns an error only by a ReadFails step, which no
\* fairness forces: a goroutine that is still running may as well have read
\* its value and be blocked in the select.
FairNext == Next /\ nCalls' <= MaxFairRefresh

FairSpec == Init /\ [][FairNext]_vars /\ WF_vars(ProgressStep(1))

(***************************************************************************)
(* isMsrLoaded: openAndReadMsr on the cores of the store, in the order the *)
(* map gives them, until one call returns nil.                             *)
(***************************************************************************)
\* the loop stops at the first core
ProbeGivesUp == tried # {}

\* line 76: the range over the map has no core left
ProbeExhausted == tried = DOMAIN cpuCoresData

\* the error of openAndReadMsr is not looked at
ProbeCallReturned == TRUE

\* line 78: err == nil
ProbeCallOk == result[1] = "ok"

\* line 77: openAndReadMsr(cpuID) for the next core the map gives; the file
\* does not open, or readDataFromMsr starts
ProbeCall(core) ==
  /\ probePc = "loop"
  /\ core \in DOMAIN cpuCoresData \ tried
  /\ IF openable[core]
       THEN \E s \in SnapshotIds : StartRead(1, core, s)
       ELSE OpenFails(1, core)
  /\ tried' = tried \cup {core}
  /\ probePc' = "call"
  /\ UNCHANGED << probeResult, openable, badOffsets, storeBefore >>

\* a step of the call's readDataFromMsr: the reads at the offsets of
\* badOffsets fail, the others succeed
ProbeRefreshStep ==
  /\ probePc = "call"
  /\ \/ \E off \in badOffsets[callCore[1]] : ReadFails(1, off)
     \/ \E off \in Offsets \ badOffsets[callCore[1]] : SendValue(1, off)
     \/ \E off \in Offsets \ badOffsets[callCore[1]] : Abandon(1, off)
     \/ RecvClosed(1)
     \/ WaitErr(1)
     \/ WaitOk(1)
     \/ Commit(1)
  /\ UNCHANGED probeVars

\* lines 78-80: the call returned nil, isMsrLoaded returns true
ProbeReturnsTrue ==
  /\ probePc = "call"
  /\ callPc[1] = "done"
  /\ ProbeCallOk
  /\ probePc' = "done"
  /\ probeResult' = TRUE
  /\ UNCHANGED << tried, openable, badOffsets, storeBefore >>
  /\ UNCHANGED msrVars

\* the call returned an error: on to the next core
ProbeNextCore ==
  /\ probePc = "call"
  /\ callPc[1] = "done"
  /\ ~ProbeCallOk
  /\ probePc' = "loop"
  /\ UNCHANGED << tried, probeResult, openable, badOffsets, storeBefore >>
  /\ UNCHANGED msrVars

\* line 82: no core is left, isMsrLoaded returns false
ProbeReturnsFalse ==
  /\ probePc = "loop"
  /\ ProbeExhausted
  /\ probePc' = "done"
  /\ probeResult' = FALSE
  /\ UNCHANGED << tried, openable, badOffsets, storeBefore >>
  /\ UNCHANGED msrVars

\* isMsrLoaded is called on a fresh store of some cores of ProbeCores, whose
\* files open or not and are readable or not
ProbeInit ==
  /\ \E S \in SUBSET ProbeCores :
       /\ cpuCoresData = [c \in S |-> ZeroData]
       /\ storeBefore = [c \in S |-> ZeroData]
  /\ NoCalls
  /\ NoHistory(ProbeCores)
  /\ ParsedNil
  /\ Built
  /\ NoSingle
  /\ probePc = "loop"
  /\ tried = {}
  /\ probeResult = FALSE
  /\ openable \in [ProbeCores -> BOOLEAN]
  /\ badOffsets \in [ProbeCores -> BadOffsetSets]
  /\ \A c \in ProbeCores :
       (c \notin DOMAIN cpuCoresData \/ ~openable[c]) => badOffsets[c] = {}
  /\ \A c \in ProbeCores : c \notin DOMAIN cpuCoresData => openable[c]

ProbeNext ==
  /\ \/ \E core \in ProbeCores : ProbeCall(core)
     \/ ProbeRefreshStep
     \/ ProbeReturnsTrue
     \/ ProbeNextCore
     \/ ProbeReturnsFalse
  /\ UNCHANGED << parseVars, setupVars, singleVars >>

SpecProbe == ProbeInit /\ [][ProbeNext]_vars

(***************************************************************************)
(* readSingleMsr(core, msr): checkFile and os.Open on the core's file,     *)
(* then the switch on the name, then one read at msrAddress.               *)
(***************************************************************************)
\* the names readSingleMsr is called with: the seven of the switch, the
\* empty name and a name in the wrong case
SingleNames ==
  { msrTurboRatioLimitString, msrTurboRatioLimit1String, msrTurboRatioLimit2String,
    msrAtomCoreTurboRatiosString, msrUncorePerfStatusString, msrPlatformInfoString,
    msrFSBFreqString, "", "msr_platform_info" }

\* the sets of offsets that may be unreadable in a file readSingleMsr reads
SingleBadOffsetSets == { {}, {platformInfo, turboRatioLimit1Location} }

\* lines 175-190: the cases of the switch
SwitchCases ==
  (msrTurboRatioLimitString :> turboRatioLimitLocation) @@
  (msrTurboRatioLimit1String :> turboRatioLimit1Location) @@
  (msrTurboRatioLimit2String :> turboRatioLimit2Location) @@
  (msrAtomCoreTurboRatiosString :> atomCoreTurboRatiosLocation) @@
  (msrUncorePerfStatusString :> uncorePerfStatusLocation) @@
  (msrPlatformInfoString :> platformInfo) @@
  (msrFSBFreqString :> fsbFreq)

\* the switch has no default case
SwitchHasCaseAlways(msr) == TRUE

\* line 190: the name is one of the cases
SwitchHasCase(msr) == msr \in DOMAIN SwitchCases

\* line 174 and the assignment of the case taken
AddressOf(msr) == IF msr \in DOMAIN SwitchCases THEN SwitchCases[msr] ELSE 0

\* the contents of the register files: the file of a core holds a word of
\* its own at every offset
FileTag == ("0" :> 7) @@ ("1" :> 8) @@ ("2" :> 9)

WordAt(core, off) == << off, FileTag[core], 0, 0 >>

\* lines 162-163: the call
SingleCall(core, msr) ==
  /\ singlePc = "idle"
  /\ singlePc' = "called"
  /\ singleCore' = core
  /\ singleMsr' = msr
  /\ UNCHANGED << msrAddress, singleReads, singleValue, singleErr >>

\* lines 164-171: checkFile or os.Open fails
SingleOpenFails ==
  /\ singlePc = "called"
  /\ ~openable[singleCore]
  /\ singlePc' = "done"
  /\ singleErr' = "resource"
  /\ UNCHANGED << singleCore, singleMsr, msrAddress, singleReads, singleValue >>

\* lines 164-172: the file is open
SingleOpen ==
  /\ singlePc = "called"
  /\ openable[singleCore]
  /\ singlePc' = "opened"
  /\ UNCHANGED << singleCore, singleMsr, msrAddress, singleReads, singleValue, singleErr >>

\* lines 190-191: default
SingleDefault ==
  /\ singlePc = "opened"
  /\ ~SwitchHasCase(singleMsr)
  /\ singlePc' = "done"
  /\ singleErr' = "name"
  /\ UNCHANGED << singleCore, singleMsr, msrAddress, singleReads, singleValue >>

\* lines 175-189: a case sets msrAddress
SingleSwitch ==
  /\ singlePc = "opened"
  /\ SwitchHasCase(singleMsr)
  /\ msrAddress' = AddressOf(singleMsr)
  /\ singlePc' = "read"
  /\ UNCHANGED << singleCore, singleMsr, singleReads, singleValue, singleErr >>

\* lines 194-199: the read at msrAddress, which fails or gives the word
SingleRead ==
  /\ singlePc = "read"
  /\ singleReads' = Append(singleReads, msrAddress)
  /\ IF msrAddress \in badOffsets[singleCore]
       THEN singleErr' = "read" /\ UNCHANGED singleValue
       ELSE singleValue' = WordAt(singleCore, msrAddress) /\ UNCHANGED singleErr
  /\ singlePc' = "done"
  /\ UNCHANGED << singleCore, singleMsr, msrAddress >>

\* readSingleMsr is called on a service whose register files open or not
\* and are readable or not
SingleInit ==
  /\ cpuCoresData = [c \in ProbeCores |-> ZeroData]
  /\ NoCalls
  /\ NoHistory(ProbeCores)
  /\ ParsedNil
  /\ Built
  /\ NoSingle
  /\ probePc = "idle"
  /\ tried = {}
  /\ probeResult = FALSE
  /\ storeBefore = [c \in {} |-> ZeroData]
  /\ openable \in [ProbeCores -> BOOLEAN]
  /\ badOffsets \in [ProbeCores -> SingleBadOffsetSets]
  /\ \A c \in ProbeCores : ~openable[c] => badOffsets[c] = {}

SingleNext ==
  /\ \/ \E core \in ProbeCores, msr \in SingleNames : SingleCall(core, msr)
     \/ SingleOpenFails
     \/ SingleOpen
     \/ SingleDefault
     \/ SingleSwitch
     \/ SingleRead
  /\ UNCHANGED << msrVars, parseVars, setupVars, probeVars >>

SpecSingle == SingleInit /\ [][SingleNext]_vars

(***************************************************************************)
(* The goroutine of an offset in two steps: the send of line 272, and the  *)
(* return with the deferred close(ch).  Between the two the caller has the *)
(* value and the goroutine is still running ("sent"); g.Wait() is what     *)
(* makes the caller wait for it.                                           *)
(***************************************************************************)
\* select takes case ch <- value, together with the caller's receive
SendOnly(k, off) ==
  /\ taskPc[k][off] = "run"
  /\ Receiving(k, off)
  /\ newVal' = [newVal EXCEPT ![k][off] = SentValue(k, off)]
  /\ AfterRecv(k)
  /\ taskPc' = [taskPc EXCEPT ![k][off] = "sent"]
  /\ UNCHANGED << cpuCoresData, callCore, reader, chClosed, gErr, ctxDone, commitPc,
                  result, pre, readFailed, abandoned, nCalls, lastOK, prevOK >>

\* lines 275, 223, 216: the goroutine returns nil and closes its channel
ReturnAfterSend(k, off) ==
  /\ taskPc[k][off] = "sent"
  /\ GoReturn(k, off, "nil")
  /\ UNCHANGED << cpuCoresData, callPc, callCore, reader, newVal, pos, commitPc,
                  result, pre, readFailed, abandoned, nCalls, lastOK, prevOK >>

JoinStep(k) ==
  \/ \E core \in Cores : OpenFails(k, core)
  \/ \E core \in Cores, s \in SnapshotIds : StartRead(k, core, s)
  \/ \E off \in Offsets : ReadFails(k, off)
  \/ \E off \in Offsets : SendOnly(k, off)
  \/ \E off \in Offsets : ReturnAfterSend(k, off)
  \/ \E off \in Offsets : Abandon(k, off)
  \/ RecvClosed(k)
  \/ WaitErr(k)
  \/ WaitOk(k)
  \/ Commit(k)

JoinNext ==
  /\ JoinStep(1)
  /\ nCalls' <= MaxFairRefresh
  /\ UNCHANGED << parseVars, setupVars, probeVars, singleVars >>

SpecJoin == Init /\ [][JoinNext]_vars

(***************************************************************************)
(* Two callers, one openAndReadMsr call each, running concurrently.  The   *)
(* goroutines, channels and errgroup of a call are its own, so the steps   *)
(* of two fan-ins commute; the callers meet only in cpuCoresData, which    *)
(* lines 241-257 read and write.  The fan-in of one call is therefore run  *)
(* while the other caller is outside its own, and every order of the two   *)
(* calls' starts, commit statements and returns remains.                   *)
(***************************************************************************)
\* a step of the fan-out/fan-in of lines 211-235
FanInStep(k) ==
  \/ \E off \in Offsets : ReadFails(k, off)
  \/ \E off \in Offsets : SendValue(k, off)
  \/ \E off \in Offsets : Abandon(k, off)
  \/ RecvClosed(k)

\* caller j has begun its fan-in and g.Wait() has not returned yet
InFanIn(j) ==
  \/ callPc[j] = "wait"
  \/ callPc[j] = "recv" /\ \E o \in Offsets : taskPc[j][o] = "done"

NotYetCalled(k) == callPc[k] = "idle"

\* one call of caller k, for a core of the set cs; the register file of
\* caller k has contents k
TwoStep(k, cs) ==
  \/ NotYetCalled(k) /\ \E core \in cs : OpenFails(k, core)
  \/ NotYetCalled(k) /\ \E core \in cs : StartRead(k, core, k)
  \/ (\A j \in Callers \ {k} : ~InFanIn(j)) /\ FanInStep(k)
  \/ WaitErr(k)
  \/ WaitOk(k)
  \/ Commit(k)

\* the core caller k refreshes when the two callers refresh different cores
\* (the cores are alike)
OwnCore(k) == IF k = 1 THEN "0" ELSE "1"

\* two concurrent refreshes of different cores
NextTwo == (\E k \in Callers : TwoStep(k, {OwnCore(k)})) /\ UNCHANGED << parseVars, setupVars, probeVars, singleVars >>

SpecTwo == Init /\ [][NextTwo]_vars

\* two concurrent refreshes of the same core
NextSame == (\E k \in Callers : TwoStep(k, {"0"})) /\ UNCHANGED << parseVars, setupVars, probeVars, singleVars >>

SpecSame == Init /\ [][NextSame]_vars

(***************************************************************************)
(* Properties of the refresh, one caller                                   *)
(***************************************************************************)
Returned(k) == callPc[k] = "done"

\* C1: once a read of a refresh has failed, the call never writes the core's
\* msrData (every current value, delta and temperature stays as it was when
\* the call started) and the call returns an error.
FailedRefreshLeavesSample ==
  \A k \in Callers :
    readFailed[k] =>
      /\ cpuCoresData[callCore[k]] = pre[k]
      /\ callPc[k] # "commit"
      /\ Returned(k) => result[k] = "readErr"

\* a refresh with a failed read has returned, on a core that held a sample of
\* an earlier refresh, after a sibling goroutine abandoned
FailedRefreshReturned ==
  /\ Returned(1) /\ readFailed[1] /\ abandoned[1]
  /\ result[1] = "readErr"
  /\ pre[1] # ZeroData

\* C2: when all 8 reads of a refresh succeed no goroutine abandons, the call
\* returns nil, and for each of the six counters the stored current value is
\* the raw value read and the stored delta is a 64-bit word d with
\* d + (current value before the call) = raw value modulo 2^64.
SuccessfulRefreshStoresDeltas ==
  \A k \in Callers :
    /\ ~readFailed[k] => ~abandoned[k]
    /\ (Returned(k) /\ result[k] \in {"ok", "readErr"} /\ ~readFailed[k]) =>
         /\ result[k] = "ok"
         /\ \A f \in CounterFields :
              LET new == RawAt(reader[k], FieldOffset(f))
                  d   == cpuCoresData[callCore[k]]
              IN  /\ d.cur[f] = new
                  /\ IsU64(d.delta[f])
                  /\ AddU64(d.delta[f], pre[k].cur[f]) = new

\* a successful refresh has returned whose raw values are all smaller than
\* the current values it found: every delta wrapped around
WrappedRefreshReturned ==
  /\ Returned(1) /\ result[1] = "ok"
  /\ \A f \in CounterFields :
       /\ LessU64(RawAt(reader[1], FieldOffset(f)), pre[1].cur[f])
       /\ cpuCoresData[callCore[1]].delta[f] # U64Zero

\* no refresh is in the middle of lines 241-257 for core c
Quiet(c) == \A k \in Callers : ~(callPc[k] = "commit" /\ callCore[k] = c)

RawOrZero(s, off) == IF s = 0 THEN U64Zero ELSE RawAt(s, off)

\* C3: between refreshes, each counter's current value is the raw value read
\* by the latest successful refresh of the core (zero if none) and its delta
\* is the modular difference of the raw values of the two latest successful
\* refreshes (the first raw value if there was only one); refreshes that
\* failed leave no trace.
SampleTracksLastTwoSuccesses ==
  \A c \in Cores :
    Quiet(c) =>
      \A f \in CounterFields :
        LET last == RawOrZero(lastOK[c], FieldOffset(f))
            prev == RawOrZero(prevOK[c], FieldOffset(f))
        IN  /\ cpuCoresData[c].cur[f] = last
            /\ IsU64(cpuCoresData[c].delta[f])
            /\ AddU64(cpuCoresData[c].delta[f], prev) = last

\* the third refresh, of a core with two successful refreshes of different
\* contents, has failed
FailedAfterTwoSuccesses ==
  /\ Returned(1) /\ result[1] = "readErr" /\ nCalls = 3
  /\ lastOK[callCore[1]] # 0 /\ prevOK[callCore[1]] # 0
  /\ lastOK[callCore[1]] # prevOK[callCore[1]]

\* C7: between refreshes the throttle temperature is bits 23:16 and the
\* temperature bits 22:16 of the raw values read by the latest successful
\* refresh, whatever was stored before; no delta is kept for either.
TemperaturesAreBitFields ==
  \A c \in Cores :
    Quiet(c) =>
      LET d == cpuCoresData[c] IN
      /\ DOMAIN d = {"cur", "delta", "throttleTemp", "temp"}
      /\ DOMAIN d.delta = CounterFields
      /\ DOMAIN d.cur = CounterFields
      /\ lastOK[c] = 0 => d.throttleTemp = 0 /\ d.temp = 0
      /\ lastOK[c] # 0 =>
           /\ d.throttleTemp = RawAt(lastOK[c], throttleTemperatureLocation)[2] % 256
           /\ d.temp = RawAt(lastOK[c], temperatureLocation)[2] % 128

\* a second successful refresh has replaced the temperatures of the first one;
\* bit 23 of the temperature register is set and is not part of the field
TemperaturesReplaced ==
  /\ Returned(1) /\ result[1] = "ok"
  /\ prevOK[callCore[1]] # 0 /\ prevOK[callCore[1]] # lastOK[callCore[1]]
  /\ RawAt(reader[1], temperatureLocation)[2] % 256 >= 128
  /\ cpuCoresData[callCore[1]].temp # pre[1].temp
  /\ cpuCoresData[callCore[1]].throttleTemp # pre[1].throttleTemp

InFlight(k) == callPc[k] \in {"recv", "wait", "commit"}

\* C4: every call of readDataFromMsr returns, whichever reads fail and however
\* the goroutines and the caller interleave: no goroutine stays blocked in
\* its select and the caller never waits forever on a channel.
EveryRefreshReturns == \A k \in Callers : InFlight(k) ~> Returned(k)

\* after a failed read the caller is at the channel of a goroutine that has
\* returned without sending, while goroutines further on are still running
CallerAtAbandonedChannel ==
  /\ callPc[1] = "recv" /\ readFailed[1] /\ ctxDone[1]
  /\ chClosed[1][recvOrder[pos[1]]] = 1
  /\ \E o \in Offsets : taskPc[1][o] = "run"

(***************************************************************************)
(* Properties of two concurrent refreshes                                  *)
(***************************************************************************)
\* lines 241-257 run from statement n on, with nothing in between
RECURSIVE RunCommit(_, _, _)
RunCommit(d, n, nv) ==
  IF n > LastCommitPc THEN d ELSE RunCommit(CommitStatement(d, n, nv), n + 1, nv)

\* the sample a successful refresh reading contents s leaves when it runs alone
RefreshedAlone(d, s) == RunCommit(d, 1, [o \in Offsets |-> RawAt(s, o)])

\* no other caller has called for the core of caller k
OnlyCallerOfCore(k) ==
  \A j \in Callers \ {k} : NotYetCalled(j) \/ callCore[j] # callCore[k]

\* C5: of two concurrent refreshes of different cores, each leaves its own
\* core's sample as it found it until it commits, as a refresh running alone
\* would leave it once it has returned nil, and as it found it once it has
\* returned an error: neither call writes the other core's sample.
DifferentCoresDoNotInterfere ==
  \A k \in Callers :
    (~NotYetCalled(k) /\ OnlyCallerOfCore(k)) =>
      LET d == cpuCoresData[callCore[k]] IN
      /\ callPc[k] \in {"recv", "wait"} => d = pre[k]
      /\ callPc[k] = "commit" =>
           RunCommit(d, commitPc[k], newVal[k]) = RefreshedAlone(pre[k], reader[k])
      /\ (Returned(k) /\ result[k] = "ok") => d = RefreshedAlone(pre[k], reader[k])
      /\ (Returned(k) /\ result[k] # "ok") => d = pre[k]

\* two refreshes of different cores are both in the middle of lines 241-257
BothCommitting ==
  /\ callCore[1] # callCore[2]
  /\ \A k \in Callers : callPc[k] = "commit" /\ commitPc[k] > NumCounters

\* C6: two overlapping refreshes of the same core that both return nil leave
\* the sample that running them one after the other, in one of the two
\* orders, leaves.
SameCoreRefreshesSerialised ==
  (/\ callCore[1] = callCore[2]
   /\ \A k \in Callers : Returned(k) /\ result[k] = "ok") =>
    cpuCoresData[callCore[1]] \in
      { RefreshedAlone(RefreshedAlone(ZeroData, reader[1]), reader[2]),
        RefreshedAlone(RefreshedAlone(ZeroData, reader[2]), reader[1]) }

(***************************************************************************)
(* The identifier parser.                                                  *)
(***************************************************************************)
\* the tokens of the strings of a list, in list order and token order
RECURSIVE AllTokens(_)
AllTokens(items) ==
  IF items = <<>> THEN <<>> ELSE items[1].toks \o AllTokens(Tail(items))

\* a single number, or a range a-b with a < b
ValidToken(t) == Len(t) = 1 \/ t[1] < t[2]

\* a range start-end with start = end or start > end
BadRange(t) == Len(t) = 2 /\ t[1] >= t[2]

\* how many ids a valid token stands for
TokenSize(t) == IF Len(t) = 1 THEN 1 ELSE t[2] - t[1] + 1

RECURSIVE TotalSize(_)
TotalSize(toks) ==
  IF toks = <<>> THEN 0 ELSE TokenSize(toks[1]) + TotalSize(Tail(toks))

\* the list is made of specifications whose tokens are all valid and stand
\* for no more ids than the ceiling
ValidList(arg) ==
  /\ ~arg.nil
  /\ arg.items # <<>>
  /\ \A i \in 1..Len(arg.items) : arg.items[i].kind = "spec"
  /\ \A i \in 1..Len(AllTokens(arg.items)) : ValidToken(AllTokens(arg.items)[i])
  /\ TotalSize(AllTokens(arg.items)) <= maxIDsSize

\* e is a, a+1, ..., b for the token a-b, and the one number of a single token
IsExpansion(e, t) ==
  /\ Len(e) = TokenSize(t)
  /\ e[1] = t[1]
  /\ e[Len(e)] = t[Len(t)]
  /\ \A i \in 1..(Len(e) - 1) : e[i + 1] = e[i] + 1

\* ids is the expansion of the first token, followed by those of the others
RECURSIVE IsConcatenation(_, _)
IsConcatenation(ids, toks) ==
  IF toks = <<>> THEN ids = <<>>
  ELSE /\ Len(ids) >= TokenSize(toks[1])
       /\ IsExpansion(SubSeq(ids, 1, TokenSize(toks[1])), toks[1])
       /\ IsConcatenation(SubSeq(ids, TokenSize(toks[1]) + 1, Len(ids)), Tail(toks))

Values(q) == { q[i] : i \in 1..Len(q) }

FirstIndex(q, v) == CHOOSE i \in 1..Len(q) : q[i] = v /\ \A j \in 1..(i - 1) : q[j] # v

NoRepeats(q) == \A i, j \in 1..Len(q) : q[i] = q[j] => i = j

\* kept holds each value of input once, in the order of first appearance
FirstAppearances(kept, input) ==
  /\ NoRepeats(kept)
  /\ Values(kept) = Values(input)
  /\ \A i, j \in 1..Len(kept) :
       i < j => FirstIndex(input, kept[i]) < FirstIndex(input, kept[j])

\* the positions of input that repeat a value met before
LaterOccurrences(input) ==
  { i \in 1..Len(input) : \E j \in 1..(i - 1) : input[j] = input[i] }

\* dups holds the entries of input at the positions of S, in input order
RECURSIVE PickedInOrder(_, _, _)
PickedInOrder(dups, input, S) ==
  IF S = {} THEN dups = <<>>
  ELSE LET first == CHOOSE i \in S : \A j \in S : i <= j
       IN  /\ dups # <<>>
           /\ dups[1] = input[first]
           /\ PickedInOrder(Tail(dups), input, S \ {first})

\* C8: for a list of specification strings whose tokens are all valid and
\* whose expansion is within the ceiling, parseIDs returns the concatenation,
\* in list order and token order, of the tokens' expansions (a-b gives a,
\* a+1, ..., b), and parseCores returns these ids in the order of their first
\* appearance.
ValidListExpandsInOrder ==
  ValidList(coresArg) =>
    /\ parsePc \in {"parsed", "deduped", "done"} =>
         /\ parsed.err = "nil"
         /\ IsConcatenation(parsed.ids.elems, AllTokens(coresArg.items))
    /\ parsePc = "done" =>
         /\ ~parsedCores.nil
         /\ FirstAppearances(parsedCores.elems, parsed.ids.elems)

\* parseCores has returned for two strings with ranges, one of them padded
\* with spaces, that share an id
TwoRangeStringsParsed ==
  /\ ValidList(coresArg)
  /\ parsePc = "done"
  /\ Len(coresArg.items) = 2
  /\ \E i \in 1..2 : coresArg.items[i].pad
  /\ \A i \in 1..2 : \E j \in 1..Len(coresArg.items[i].toks) :
       Len(coresArg.items[i].toks[j]) = 2
  /\ Len(parsedCores.elems) < Len(parsed.ids.elems)

\* C9: removeDuplicateValues returns a result without repeats that holds the
\* distinct values of its input in order of first occurrence, and a
\* duplicates list with one entry for each later occurrence in input order;
\* the two lengths add up to the length of the input, and a list with
\* duplicates is parsed without error: "0,1,2" and "1,3" give 0,1,2,3 with
\* duplicates 1.
DuplicatesAreDropped ==
  /\ parsePc \in {"deduped", "done"} /\ parsed.err = "nil" /\ ~coresArg.nil =>
       LET input == parsed.ids.elems IN
       /\ FirstAppearances(dedup.result.elems, input)
       /\ PickedInOrder(dedup.duplicates.elems, input, LaterOccurrences(input))
       /\ Len(dedup.result.elems) + Len(dedup.duplicates.elems) = Len(input)
       /\ parsePc = "done" => parsedCores = dedup.result
  /\ (/\ parsePc = "done"
      /\ ~coresArg.nil
      /\ CoresStrings = << << "0", ",", "1", ",", "2" >>, << "1", ",", "3" >> >>) =>
       /\ parsedCores.elems = << 0, 1, 2, 3 >>
       /\ dedup.duplicates.elems = << 1 >>

\* parseCores has returned for "0,1,2" and "1,3"
OverlappingListsParsed ==
  /\ parsePc = "done"
  /\ ~coresArg.nil
  /\ CoresStrings = << << "0", ",", "1", ",", "2" >>, << "1", ",", "3" >> >>
  /\ dedup.duplicates.elems # <<>>

\* the list is made of specifications and one of its tokens is a range
\* start-end with start = end or start > end
HasBadRange(arg) ==
  /\ ~arg.nil
  /\ \A i \in 1..Len(arg.items) : arg.items[i].kind = "spec"
  /\ \E i \in 1..Len(AllTokens(arg.items)) : BadRange(AllTokens(arg.items)[i])

\* the tokens in front of the first such range
BeforeBadRange(toks) ==
  LET first == CHOOSE i \in 1..Len(toks) :
                 BadRange(toks[i]) /\ \A j \in 1..(i - 1) : ~BadRange(toks[j])
  IN  SubSeq(toks, 1, first - 1)

\* C10 as stated: a list with a range start-end, start = end or start > end,
\* fails with a format error and returns no ids, wherever the range stands
\* and whatever valid tokens come before it.
BadRangeIsFormatError ==
  (HasBadRange(coresArg) /\ parsePc \in {"parsed", "done"}) =>
    /\ parsed.err = "format"
    /\ parsed.ids = NilSlice

\* C10: a list with a range start-end, start = end or start > end, fails and
\* returns no ids; the error is the format error, unless the tokens in front
\* of the range stand for more ids than the ceiling, and then it is the
\* capacity error.
BadRangeFailsParse ==
  (HasBadRange(coresArg) /\ parsePc \in {"parsed", "done"}) =>
    /\ parsed.ids = NilSlice
    /\ parsed.err =
         IF TotalSize(BeforeBadRange(AllTokens(coresArg.items))) > maxIDsSize
           THEN "capacity" ELSE "format"
    /\ parsePc = "done" => parsedCores = NilSlice

\* parseIDs has refused a list whose second string ends in a range with
\* start = end, after valid tokens
BadRangeAfterValidTokens ==
  /\ HasBadRange(coresArg)
  /\ parsePc = "parsed"
  /\ parsed.err = "format"
  /\ Len(coresArg.items) = 2
  /\ LET toks == AllTokens(coresArg.items) IN
       /\ Len(BeforeBadRange(toks)) >= 2
       /\ toks[Len(BeforeBadRange(toks)) + 1][1] = toks[Len(BeforeBadRange(toks)) + 1][2]

\* the ids the tokens stand for
TokenIDs(toks) == UNION { (toks[i][1])..(toks[i][Len(toks[i])]) : i \in 1..Len(toks) }

\* the list is made of specifications whose tokens are all valid
ValidTokensOnly(arg) ==
  /\ ~arg.nil
  /\ arg.items # <<>>
  /\ \A i \in 1..Len(arg.items) : arg.items[i].kind = "spec"
  /\ \A i \in 1..Len(AllTokens(arg.items)) : ValidToken(AllTokens(arg.items)[i])

\* C11: a list whose tokens stand, repeated ids counted and all strings
\* taken together, for more than maxIDsSize ids fails with the capacity error
\* and returns no ids; a list that stands for maxIDsSize ids or fewer is
\* parsed without error and gives that many ids before deduplication.
CeilingCountsExpandedIDs ==
  (ValidTokensOnly(coresArg) /\ parsePc \in {"parsed", "deduped", "done"}) =>
    IF TotalSize(AllTokens(coresArg.items)) > maxIDsSize
      THEN /\ parsed.err = "capacity"
           /\ parsed.ids = NilSlice
           /\ parsePc \in {"parsed", "done"}
           /\ parsePc = "done" => parsedCores = NilSlice
      ELSE /\ parsed.err = "nil"
           /\ Len(parsed.ids.elems) = TotalSize(AllTokens(coresArg.items))

\* parseIDs has refused two strings that stand for more than maxIDsSize ids
\* but for no more than maxIDsSize different ones
RepeatedIDsOverCeiling ==
  /\ ValidTokensOnly(coresArg)
  /\ parsePc = "parsed"
  /\ parsed.err = "capacity"
  /\ Len(coresArg.items) = 2
  /\ TotalSize(AllTokens(coresArg.items)) > maxIDsSize
  /\ Cardinality(TokenIDs(AllTokens(coresArg.items))) <= maxIDsSize

\* the comma-separated tokens of the strings, spaces around them taken off,
\* in list order
RECURSIVE TokenTexts(_)
TokenTexts(strings) ==
  IF strings = <<>> THEN <<>>
  ELSE LET toks == Split(strings[1], ",")
       IN  [i \in 1..Len(toks) |-> TrimSpace(toks[i])] \o TokenTexts(Tail(strings))

AllDigits(q) == q # <<>> /\ \A i \in 1..Len(q) : IsDigit(q[i])

\* two runs of digits joined by "-"
IsRangeText(tok) ==
  \E i \in 1..Len(tok) :
    /\ tok[i] = "-"
    /\ AllDigits(SubSeq(tok, 1, i - 1))
    /\ AllDigits(SubSeq(tok, i + 1, Len(tok)))

\* a single non-negative decimal integer, written with or without "+"
IsNumberText(tok) ==
  AllDigits(tok) \/ (tok # <<>> /\ tok[1] = "+" /\ AllDigits(Tail(tok)))

\* neither a single non-negative decimal integer nor a range of two
MalformedText(tok) == ~IsNumberText(tok) /\ ~IsRangeText(tok)

\* the two numbers of a range
RangeEnds(tok) ==
  LET i == CHOOSE i \in 1..Len(tok) : tok[i] = "-"
  IN  << DigitsValue(SubSeq(tok, 1, i - 1)), DigitsValue(SubSeq(tok, i + 1, Len(tok))) >>

\* a single number, or a range a-b with a < b
ValidText(tok) ==
  IsNumberText(tok) \/ (IsRangeText(tok) /\ RangeEnds(tok)[1] < RangeEnds(tok)[2])

RECURSIVE TextsSize(_)
TextsSize(toks) ==
  IF toks = <<>> THEN 0
  ELSE (IF IsNumberText(toks[1]) THEN 1
        ELSE RangeEnds(toks[1])[2] - RangeEnds(toks[1])[1] + 1) + TextsSize(Tail(toks))

\* the first malformed token stands at i, after valid tokens that stand for
\* no more ids than the ceiling
FirstMalformedAt(toks, i) ==
  /\ MalformedText(toks[i])
  /\ \A j \in 1..(i - 1) : ValidText(toks[j])
  /\ TextsSize(SubSeq(toks, 1, i - 1)) <= maxIDsSize

\* C12: a token that is neither a single non-negative decimal integer nor a
\* range of two such integers joined by "-" makes the parse fail with the
\* format error that names the token, and no ids are returned; every id of a
\* successful parse is a non-negative integer.
MalformedTokenIsFormatError ==
  (~coresArg.nil /\ parsePc \in {"parsed", "deduped", "done"}) =>
    LET toks == TokenTexts(CoresStrings) IN
    /\ \A i \in 1..Len(toks) :
         FirstMalformedAt(toks, i) =>
           /\ parsed.err = "format"
           /\ parsed.tok = toks[i]
           /\ parsed.ids = NilSlice
    /\ parsed.err = "nil" => \A i \in 1..Len(parsed.ids.elems) : parsed.ids.elems[i] >= 0

(***************************************************************************)
(* Setup: the cores the store is made for.                                 *)
(***************************************************************************)
\* the numbers of the cores whose directories the glob found
DiscoveredIDs ==
  IF cpuPaths.err THEN {} ELSE { n \in SystemCoreIDs : CPUDir(n) \in cpuPaths.paths }

\* the store has an entry, all zero, for exactly the cores numbered in S
StoreHoldsFreshEntriesFor(S) ==
  /\ DOMAIN cpuCoresData = { ToDigits(n) : n \in S }
  /\ \A core \in DOMAIN cpuCoresData : cpuCoresData[core] = ZeroData

\* C13: when parsing the cores fails, with the format or the capacity error,
\* parseCores returns nil, the service is made all the same and its store
\* holds an entry for every core found on the system.
ParseErrorSelectsEveryCore ==
  (parsePc = "done" /\ parsed.err # "nil") =>
    /\ parsedCores = NilSlice
    /\ setupPc = "built" => StoreHoldsFreshEntriesFor(DiscoveredIDs)

\* the service was made after a capacity error on a system with cores
BuiltAfterCapacityError ==
  /\ setupPc = "built"
  /\ parsed.err = "capacity"
  /\ Cardinality(DOMAIN cpuCoresData) >= 2

\* C14: parseCores returns nil (all cores) for a nil list, an empty list and
\* a list that fails to parse, and for nothing else: a list of one string or
\* more that parses gives one id at least.
NilOnlyWithoutSuccessfulParse ==
  parsePc = "done" =>
    /\ parsedCores.nil <=>
         (coresArg.nil \/ coresArg.items = <<>> \/ parsed.err # "nil")
    /\ ~parsedCores.nil => Len(parsedCores.elems) >= 1
    /\ (coresArg.nil \/ coresArg.items = <<>>) => parsed = NoParse

\* parseCores has returned for an empty list of strings
EmptyListSelectsAll ==
  /\ parsePc = "done"
  /\ ~coresArg.nil
  /\ coresArg.items = <<>>
  /\ parsedCores.nil

\* C15: with a filter the store has an entry for exactly the cores that the
\* filter names and that were found on the system, without one it has an
\* entry for exactly the cores found; every entry is all zero.
StoreIsFilterMeetDiscovered ==
  setupPc = "built" =>
    IF parsedCores.nil
      THEN StoreHoldsFreshEntriesFor(DiscoveredIDs)
      ELSE StoreHoldsFreshEntriesFor(DiscoveredIDs \cap Values(parsedCores.elems))

\* the service was made with a filter that names a core the system lacks
\* and leaves out a core the system has
FilterAndSystemDiffer ==
  /\ setupPc = "built"
  /\ ~parsedCores.nil
  /\ Values(parsedCores.elems) \ DiscoveredIDs # {}
  /\ DiscoveredIDs \ Values(parsedCores.elems) # {}
  /\ DOMAIN cpuCoresData # {}

(***************************************************************************)
(* The errgroup and the channels of a refresh.                             *)
(***************************************************************************)
\* C18: the error a failed refresh returns is the error of a read that
\* failed, never the ctx.Err() of a goroutine that abandoned: the context is
\* cancelled only once the errgroup has recorded an error, and the error it
\* has recorded is that of a read.
RecordedErrorIsReadFailure ==
  \A k \in Callers :
    /\ gErr[k] \in {"nil", "read"}
    /\ (callPc[k] \in {"recv", "wait"} /\ ctxDone[k]) => gErr[k] = "read"
    /\ gErr[k] = "read" => readFailed[k]
    /\ abandoned[k] => readFailed[k]
    /\ (Returned(k) /\ result[k] = "readErr") => readFailed[k]

\* g.Wait() is about to return the error of a read while another goroutine
\* has returned ctx.Err()
WaitAfterAbandon ==
  /\ callPc[1] = "wait"
  /\ \A o \in Offsets : taskPc[1][o] = "done"
  /\ abandoned[1]
  /\ gErr[1] = "read"

\* C19: when readDataFromMsr returns, with nil or with an error, its 8
\* goroutines have returned and each of its 8 channels has been closed once;
\* a running goroutine's channel is open, so nothing is sent on a closed
\* channel; and the values lines 241-257 store are the ones read at the
\* offsets of their registers.  (Checked with the send and the return of a
\* goroutine as two steps.)
TasksJoinedAtReturn ==
  /\ [](\A k \in Callers : \A o \in Offsets :
          /\ chClosed[k][o] <= 1
          /\ taskPc[k][o] \in {"run", "sent"} => chClosed[k][o] = 0
          /\ taskPc[k][o] = "done" => chClosed[k][o] = 1
          /\ callPc[k] = "commit" => newVal[k][o] = RawAt(reader[k], o))
  /\ [][\A k \in Callers :
          (callPc[k] \in {"wait", "commit"} /\ callPc'[k] = "done") =>
            \A o \in Offsets : taskPc[k][o] = "done" /\ chClosed[k][o] = 1]_vars

\* the caller has received all 8 values and is held in g.Wait() by a
\* goroutine that has sent its value and not yet returned
WaitHeldBySender ==
  /\ callPc[1] = "wait"
  /\ gErr[1] = "nil"
  /\ \E o \in Offsets : taskPc[1][o] = "sent" /\ chClosed[1][o] = 0

(***************************************************************************)
(* isMsrLoaded                                                             *)
(***************************************************************************)
\* the file of the core opens and every offset of it can be read
Readable(c) == openable[c] /\ badOffsets[c] = {}

\* C16: isMsrLoaded returns true exactly when the file of some core of the
\* store opens and can be read at all 8 offsets; it returns false only after
\* it has called openAndReadMsr for every core of the store, and false for
\* an empty store.
ProbeTrueIffSomeCoreReadable ==
  probePc = "done" =>
    /\ probeResult \in BOOLEAN
    /\ probeResult <=> \E c \in DOMAIN cpuCoresData : Readable(c)
    /\ ~probeResult => tried = DOMAIN cpuCoresData
    /\ DOMAIN cpuCoresData = {} => ~probeResult

\* isMsrLoaded has returned true after a core whose file does not open and
\* a core whose reads fail
ProbeTrueAfterTwoFailures ==
  /\ probePc = "done"
  /\ probeResult
  /\ Cardinality(tried) = 3
  /\ \E c \in tried : ~openable[c]
  /\ \E c \in tried : badOffsets[c] # {}

\* C20: isMsrLoaded refreshes the cores it tries: when it returns true, the
\* sample of the core whose call returned nil is the one a successful
\* refresh leaves, and the samples of the cores tried before it and of the
\* cores not tried are as they were; when it returns false the whole store
\* is as it was.
ProbeRefreshesOneCore ==
  probePc = "done" =>
    IF probeResult
      THEN /\ callCore[1] \in tried
           /\ cpuCoresData =
                [storeBefore EXCEPT ![callCore[1]] = RefreshedAlone(@, reader[1])]
           /\ cpuCoresData[callCore[1]] # storeBefore[callCore[1]]
           /\ \A c \in tried \ {callCore[1]} : ~Readable(c)
      ELSE cpuCoresData = storeBefore

\* isMsrLoaded has returned true with a core tried before and a core not
\* tried
ProbeTrueWithCoreUntried ==
  /\ probePc = "done"
  /\ probeResult
  /\ Cardinality(tried) = 2
  /\ Cardinality(DOMAIN cpuCoresData) = 3

(***************************************************************************)
(* readSingleMsr                                                           *)
(***************************************************************************)
\* the offsets of the switch of readSingleMsr
NamedOffsets == { SwitchCases[n] : n \in DOMAIN SwitchCases }

\* the switch has seven names with seven offsets of their own, none of them
\* an offset of the refresh
SevenNamedOffsetsApart ==
  /\ Cardinality(DOMAIN SwitchCases) = 7
  /\ Cardinality(NamedOffsets) = 7
  /\ NamedOffsets \cap Offsets = {}

\* C17 as stated: whatever the state of the core's register file,
\* readSingleMsr with a name that is not one of the seven fails with the
\* error of the unknown name and reads nothing, and with one of the seven
\* names it makes exactly one read, at the offset of the name; the seven
\* offsets are distinct and none is an offset of the refresh.
UnknownNameAlwaysNameError ==
  /\ SevenNamedOffsetsApart
  /\ singlePc = "done" =>
       IF singleMsr \notin DOMAIN SwitchCases
         THEN singleErr = "name" /\ singleReads = << >>
         ELSE singleReads = << SwitchCases[singleMsr] >>

\* C17, amended: when the file of the core opens, readSingleMsr with a name
\* that is not one of the seven fails with the error of the unknown name
\* and reads nothing, and with one of the seven names it makes exactly one
\* read, at the offset of the name, and returns the word read or the error
\* of the read; when the file does not open it fails with the error of the
\* file and reads nothing, whatever the name.  The seven offsets are
\* distinct and none is an offset of the refresh.
NameLookedUpOnceFileIsOpen ==
  /\ SevenNamedOffsetsApart
  /\ singlePc = "done" =>
       IF ~openable[singleCore]
         THEN singleErr = "resource" /\ singleReads = << >>
       ELSE IF singleMsr \notin DOMAIN SwitchCases
         THEN singleErr = "name" /\ singleReads = << >>
       ELSE /\ singleReads = << SwitchCases[singleMsr] >>
            /\ IF SwitchCases[singleMsr] \in badOffsets[singleCore]
                 THEN singleErr = "read"
                 ELSE /\ singleErr = "nil"
                      /\ singleValue = WordAt(singleCore, SwitchCases[singleMsr])

\* readSingleMsr has returned from a call with a name in the wrong case on
\* a core whose file opens
UnknownNameOnOpenFile ==
  /\ singlePc = "done"
  /\ openable[singleCore]
  /\ singleMsr = "msr_platform_info"
  /\ singleErr = "name"

====
